---- MODULE Spec2Model ----
(***************************************************************************)
(* A model of fcpp::Queryable<T> (src/src/query.h), its invariant guard    *)
(* (src/src/asserts.h) and the branch typestate chain WhenTrue ->          *)
(* WhenFalse -> Merge.                                                     *)
(*                                                                         *)
(* Items are ints, the element type of src/tests/query_integer_test.cpp:   *)
(* std::move of an item copies it, so an operation that moves the items    *)
(* one by one (move iterators, std::move(items_[i])) leaves items_ as it   *)
(* was, while an operation that move-constructs a whole std::vector from   *)
(* items_ leaves items_ empty.  The operations that can move one item      *)
(* more than once (where, join) are modelled for a second item type as     *)
(* well, one whose move leaves the source default-valued (std::string).    *)
(*                                                                         *)
(* Two specifications share the variables:                                 *)
(*   Spec        one stage and the operations called on it;                *)
(*   BranchSpec  one stage and the branch / when_true / when_false / merge *)
(*               protocol started from it.                                 *)
(***************************************************************************)
EXTENDS Integers, Sequences, FiniteSets, TLC

VARIABLES
  input,    \* the vector the stage was constructed from (history)
  items_,   \* Queryable<T>::items_ of the stage
  last,     \* the call made on the stage: name, arguments, items_ before it (history)
  out,      \* what that call produced: a new stage, a vector, an error, ...
  wt,       \* the WhenTrue value
  wf,       \* the WhenFalse value
  mg,       \* the Merge value
  result    \* the stage returned by Merge::merge

vars == <<input, items_, last, out, wt, wf, mg, result>>

(***************************************************************************)
(* Bounds of the model.                                                    *)
(***************************************************************************)
MaxLen == 3      \* longest input vector
MaxVal == 2      \* items are drawn from 0..MaxVal
MaxStride == 2   \* slice strides are drawn from 0..MaxStride

Values == 0..MaxVal
Args == 0..(MaxLen + 1)          \* size_t arguments tried, one past the longest size
Strides == 0..MaxStride

RECURSIVE SeqsUpTo(_)
SeqsUpTo(n) ==
  IF n = 0 THEN {<<>>}
  ELSE LET shorter == SeqsUpTo(n - 1)
       IN  shorter \cup {Append(s, v) : s \in {t \in shorter : Len(t) = n - 1}, v \in Values}

Inputs == SeqsUpTo(MaxLen)

Min(a, b) == IF a < b THEN a ELSE b
Max(a, b) == IF a > b THEN a ELSE b

(***************************************************************************)
(* size_t arithmetic.  size_t is 64 bits wide; TLC's integers are 32 bits, *)
(* so the modulus is scaled to 2^30.  Every argument of the model is at    *)
(* most MaxLen + 1, so the only wrap that can happen is the one of         *)
(* start_index - 1 at start_index = 0, which 2^30 shows as 2^64 does: as a *)
(* value larger than any size.                                             *)
(***************************************************************************)
SizeModulus == 2 ^ 30
SizeT(x) == x % SizeModulus

(***************************************************************************)
(* asserts::invariant::eval(condition) << ...: the temporary is destroyed  *)
(* at the end of the statement and its destructor throws                   *)
(* std::invalid_argument when the condition is false.                      *)
(***************************************************************************)
InvariantThrows(condition) == ~condition

\* A call: its name, its size_t arguments (a, b, c), its lambdas (f, g), its
\* vector argument (rhs), its bool argument (flag), the item type T of the
\* stage, whether the lambda takes its parameter by value, whether the
\* stage is one an earlier call of the chain returned, and items_ as the
\* call found it (pre).
NoCall ==
  [op |-> "none", a |-> 0, b |-> 0, c |-> 0, f |-> "none", g |-> "none", rhs |-> <<>>,
   flag |-> FALSE, T |-> "int", by_value |-> TRUE, chained |-> FALSE, pre |-> <<>>]
NoOut == [kind |-> "none", items |-> <<>>]
Call(op, a, b, c) == [NoCall EXCEPT !.op = op, !.a = a, !.b = b, !.c = c, !.pre = items_]
CallWith(op, f) == [NoCall EXCEPT !.op = op, !.f = f, !.pre = items_]
CallOf(op, f, rhs, flag, T, by_value) ==
  [NoCall EXCEPT !.op = op, !.f = f, !.rhs = rhs, !.flag = flag, !.T = T,
                 !.by_value = by_value, !.pre = items_]
StageOut(items) == [kind |-> "stage", items |-> items]
VectorOutOfMovedFrom(items) == [kind |-> "vector", items |-> <<>>]
VectorOut(items) == [kind |-> "vector", items |-> items]
ErrorOut == [kind |-> "invalid_argument", items |-> <<>>]
CrashOut == [kind |-> "crash", items |-> <<>>]

(***************************************************************************)
(* The caller.  Spec follows the fluent use of the tests and the demo:     *)
(* one call on the stage.  Returned: the call returned `o` and left the    *)
(* stage holding `left`.  Threw: the guard threw before anything else ran. *)
(***************************************************************************)
Unused == last.op = "none"

Returned(call, o, left) ==
  /\ last' = call
  /\ out' = o
  /\ items_' = left
  /\ UNCHANGED <<input, wt, wf, mg, result>>

ThrewAfterMoving(call) ==
  /\ last' = call
  /\ out' = ErrorOut
  /\ items_' = <<>>
  /\ UNCHANGED <<input, wt, wf, mg, result>>

Threw(call) ==
  /\ last' = call
  /\ out' = ErrorOut
  /\ UNCHANGED <<input, items_, wt, wf, mg, result>>

(***************************************************************************)
(* A std::vector that a whole vector was move-constructed from.            *)
(***************************************************************************)
NotMovedFrom == items_
MovedFrom == <<>>

(***************************************************************************)
(* skip                                                                    *)
(***************************************************************************)
SkipGuardStrict(value, size) == value < size
SkipGuard(value, size) == value <= size

SkipItems(items, value) == [i \in 1..(Len(items) - value) |-> items[i + value]]

Skip(value) ==
  /\ Unused
  /\ IF InvariantThrows(SkipGuard(value, Len(items_)))
     THEN Threw(Call("skip", value, 0, 0))
     ELSE Returned(Call("skip", value, 0, 0), StageOut(SkipItems(items_, value)), items_)

(***************************************************************************)
(* take                                                                    *)
(***************************************************************************)
TakeGuard(value, size) == value <= size

TakeItemsFromBack(items, value) == [i \in 1..value |-> items[Len(items) - value + i]]
TakeItems(items, value) == [i \in 1..value |-> items[i]]

Take(value) ==
  /\ Unused
  /\ IF InvariantThrows(TakeGuard(value, Len(items_)))
     THEN Threw(Call("take", value, 0, 0))
     ELSE Returned(Call("take", value, 0, 0), StageOut(TakeItems(items_, value)), items_)

(***************************************************************************)
(* take_random: the indices 0..size-1 are shuffled (any permutation, the   *)
(* random source decides), cut to `value`, and the items at them moved.    *)
(***************************************************************************)
TakeRandomGuard(value, size) == value <= size

Shuffles(n) == {p \in [1..n -> 1..n] : \A i, j \in 1..n : p[i] = p[j] => i = j}

TakeRandomItemsOfOneIndex(items, indices, value) == [k \in 1..value |-> items[indices[1]]]

TakeRandomItems(items, indices, value) == [k \in 1..value |-> items[indices[k]]]

TakeRandom(value) ==
  /\ Unused
  /\ IF InvariantThrows(TakeRandomGuard(value, Len(items_)))
     THEN Threw(Call("take_random", value, 0, 0))
     ELSE \E indices \in Shuffles(Len(items_)) :
            Returned(Call("take_random", value, 0, 0),
                     StageOut(TakeRandomItems(items_, indices, value)), items_)

(***************************************************************************)
(* slice.  Indices are 0-based as in the code; items_[i] is the model's    *)
(* items[i + 1].  A read past the end is undefined behaviour: it yields    *)
(* some value of the item type, or the program crashes.                    *)
(***************************************************************************)
SliceStartGuard(start_index, size) == start_index < size

SliceLength(start_index, size, stride) == SizeT(SizeT(start_index - 1) + SizeT(size * stride))

SliceLengthGuardNoZeroStride(stride, slice_length, size) == slice_length <= size
SliceLengthGuard(stride, slice_length, size) == stride = 0 \/ slice_length <= size

SliceIndex(start_index, stride, current_size) == start_index + current_size * stride

SliceOutOfRange(items, start_index, size, stride) ==
  {k \in 1..size : SliceIndex(start_index, stride, k - 1) >= Len(items)}

SliceItems(items, start_index, size, stride, garbage) ==
  [k \in 1..size |->
     IF SliceIndex(start_index, stride, k - 1) < Len(items)
     THEN items[SliceIndex(start_index, stride, k - 1) + 1]
     ELSE garbage[k]]

Slice(start_index, size, stride) ==
  LET call == Call("slice", start_index, size, stride)
      oob == SliceOutOfRange(items_, start_index, size, stride)
  IN  /\ Unused
      /\ IF InvariantThrows(SliceStartGuard(start_index, Len(items_)))
         THEN Threw(call)
         ELSE IF InvariantThrows(SliceLengthGuard(
                   stride, SliceLength(start_index, size, stride), Len(items_)))
         THEN Threw(call)
         ELSE \/ \E garbage \in [oob -> Values] :
                   Returned(call, StageOut(SliceItems(items_, start_index, size, stride, garbage)),
                            items_)
              \/ /\ oob # {}
                 /\ Returned(call, CrashOut, items_)

(***************************************************************************)
(* Predicates, selectors: the lambdas a caller passes.                     *)
(***************************************************************************)
Predicates == {"even", "lt1", "eq1"}
Holds(predicate, x) ==
  CASE predicate = "even" -> x % 2 = 0
    [] predicate = "lt1" -> x < 1
    [] predicate = "eq1" -> x = 1

Selectors == {"dec", "inc"}
Select1(selector, x) ==
  CASE selector = "dec" -> x - 1
    [] selector = "inc" -> x + 1

(***************************************************************************)
(* Item types.  T() is the default-constructed item.  Moving an int copies *)
(* it; moving a std::string leaves the source empty, which is T().  A      *)
(* lambda called with an rvalue item (the items come through move          *)
(* iterators) move-constructs its parameter from the item when it takes    *)
(* the parameter by value, and leaves the item alone when it takes a       *)
(* const reference.                                                        *)
(***************************************************************************)
ItemTypes == {"int", "string"}
DefaultItem == 0

MovedFromItem(item, T) == IF T = "int" THEN item ELSE DefaultItem
PassedAsRvalue(item, T, by_value) == IF by_value THEN MovedFromItem(item, T) ELSE item

(***************************************************************************)
(* where: std::copy_if over move iterators.  copy_if calls the predicate   *)
(* on the item and then, if that held, assigns the item to the output:     *)
(* the item pushed is the item as the predicate's call left it.            *)
(* WhereItems is the result for int items.                                 *)
(***************************************************************************)
RECURSIVE WhereItems(_, _)
WhereItems(items, predicate) ==
  IF items = <<>> THEN <<>>
  ELSE (IF Holds(predicate, Head(items)) THEN <<Head(items)>> ELSE <<>>)
         \o WhereItems(Tail(items), predicate)

WhereCopied(items, predicate, T, by_value) ==
  LET matching == WhereItems(items, predicate)
  IN  [i \in 1..Len(matching) |-> PassedAsRvalue(matching[i], T, by_value)]

WhereLeft(items, predicate, T, by_value) ==
  [i \in 1..Len(items) |->
     IF Holds(predicate, items[i]) THEN MovedFromItem(items[i], T)
     ELSE PassedAsRvalue(items[i], T, by_value)]

Where(predicate, T, by_value) ==
  /\ Unused
  /\ Returned(CallOf("where", predicate, <<>>, FALSE, T, by_value),
              StageOut(WhereCopied(items_, predicate, T, by_value)),
              WhereLeft(items_, predicate, T, by_value))

\* .where(predicate).where(predicate): the same call on the stage that the
\* first where returned.
WhereAgain ==
  /\ last.op = "where" /\ ~last.chained /\ out.kind = "stage"
  /\ last' = [last EXCEPT !.chained = TRUE, !.pre = out.items]
  /\ out' = StageOut(WhereCopied(out.items, last.f, last.T, last.by_value))
  /\ items_' = WhereLeft(out.items, last.f, last.T, last.by_value)
  /\ UNCHANGED <<input, wt, wf, mg, result>>

(***************************************************************************)
(* select: std::transform with a back_inserter.                            *)
(***************************************************************************)
SelectItemsBackToFront(items, selector) ==
  [i \in 1..Len(items) |-> Select1(selector, items[Len(items) + 1 - i])]

SelectItems(items, selector) == [i \in 1..Len(items) |-> Select1(selector, items[i])]

Select(selector) ==
  /\ Unused
  /\ Returned(CallWith("select", selector), StageOut(SelectItems(items_, selector)), items_)

(***************************************************************************)
(* reverse: std::reverse in place, then the vector is moved into the new   *)
(* stage.                                                                  *)
(***************************************************************************)
ReverseItemsRotated(items) ==
  IF items = <<>> THEN <<>> ELSE Tail(items) \o <<Head(items)>>

ReverseItems(items) == [i \in 1..Len(items) |-> items[Len(items) + 1 - i]]

Reverse ==
  /\ Unused
  /\ Returned(Call("reverse", 0, 0, 0), StageOut(ReverseItems(items_)), MovedFrom)

(***************************************************************************)
(* to_vector: return std::move(items_).                                    *)
(***************************************************************************)
ToVector ==
  /\ Unused
  /\ Returned(Call("to_vector", 0, 0, 0), VectorOut(items_), MovedFrom)

(***************************************************************************)
(* Key and value selectors: the lambdas order_by, group_by and join take.  *)
(***************************************************************************)
KeySelectors == {"mod2", "self"}
Key(selector, x) ==
  CASE selector = "mod2" -> x % 2
    [] selector = "self" -> x

(***************************************************************************)
(* order_by: std::sort of items_ by the selected value, then the vector is *)
(* moved into the new stage.  std::sort leaves the order of equivalent     *)
(* items unspecified: every arrangement of the items that the comparison   *)
(* orders is an outcome.                                                   *)
(***************************************************************************)
OrderByLess(selector, descending, lhs, rhs) ==
  IF descending THEN Key(selector, lhs) > Key(selector, rhs)
  ELSE Key(selector, lhs) < Key(selector, rhs)

OrderByOutcomes(items, selector, descending) ==
  { sorted \in { [i \in 1..Len(items) |-> items[p[i]]] : p \in Shuffles(Len(items)) } :
      \A i, j \in 1..Len(items) :
        i < j => ~OrderByLess(selector, descending, sorted[j], sorted[i]) }

OrderBy(value_selector, descending) ==
  /\ Unused
  /\ \E sorted \in OrderByOutcomes(items_, value_selector, descending) :
       Returned(CallOf("order_by", value_selector, <<>>, descending, "int", TRUE),
                StageOut(sorted), MovedFrom)

(***************************************************************************)
(* distinct: the items are inserted into a std::set, and                   *)
(* transforms::to_vector extracts the set's items in its iteration order,  *)
(* which is ascending.                                                     *)
(***************************************************************************)
RECURSIVE Ascending(_)
Ascending(set) ==
  IF set = {} THEN <<>>
  ELSE LET least == CHOOSE x \in set : \A y \in set : x <= y
       IN  <<least>> \o Ascending(set \ {least})

DistinctItemsDescending(items) ==
  ReverseItems(Ascending({items[i] : i \in 1..Len(items)}))

DistinctItems(items) == Ascending({items[i] : i \in 1..Len(items)})

Distinct ==
  /\ Unused
  /\ Returned(Call("distinct", 0, 0, 0), StageOut(DistinctItems(items_)), items_)

(***************************************************************************)
(* group_by, keyed_group_by: the items are appended, in their order, to    *)
(* the std::map entry of their key; the map is read out in key order.      *)
(***************************************************************************)
GroupKeys(items, key_selector) ==
  Ascending({Key(key_selector, items[i]) : i \in 1..Len(items)})

GroupOf(items, key_selector, key) ==
  SelectSeq(items, LAMBDA x : Key(key_selector, x) = key)

GroupByItemsLastKeyFirst(items, key_selector) ==
  LET keys == ReverseItems(GroupKeys(items, key_selector))
  IN  [k \in 1..Len(keys) |-> GroupOf(items, key_selector, keys[k])]

GroupByItems(items, key_selector) ==
  LET keys == GroupKeys(items, key_selector)
  IN  [k \in 1..Len(keys) |-> GroupOf(items, key_selector, keys[k])]

GroupBy(key_selector) ==
  /\ Unused
  /\ Returned(CallWith("group_by", key_selector),
              StageOut(GroupByItems(items_, key_selector)), items_)

KeyedGroupByItems(items, key_selector) ==
  LET keys == GroupKeys(items, key_selector)
  IN  [k \in 1..Len(keys) |-> <<keys[k], GroupOf(items, key_selector, keys[k])>>]

KeyedGroupBy(key_selector) ==
  /\ Unused
  /\ Returned(CallWith("keyed_group_by", key_selector),
              StageOut(KeyedGroupByItems(items_, key_selector)), items_)

(***************************************************************************)
(* join.  The right items are appended to the std::map entry of their key. *)
(* Each left item, in order, is paired with every right item of its key's  *)
(* entry by joined.push_back({std::move(lhs_item), std::move(rhs_item)}):  *)
(* the left item is moved from at its first pairing, and the right item,   *)
(* which stays in the map, at the first pairing that reaches it.           *)
(* JoinItems pairs the left items from index i on, `moved` being the       *)
(* indices of the right items already moved from.                          *)
(***************************************************************************)
JoinMatches(rhs_items, rhs_key_selector, key) ==
  SelectSeq([j \in 1..Len(rhs_items) |-> j],
            LAMBDA j : Key(rhs_key_selector, rhs_items[j]) = key)

RECURSIVE JoinItems(_, _, _, _, _, _, _)
JoinItems(items, rhs_items, lhs_key_selector, rhs_key_selector, T, i, moved) ==
  IF i > Len(items) THEN <<>>
  ELSE LET matches == JoinMatches(rhs_items, rhs_key_selector, Key(lhs_key_selector, items[i]))
           joined == [k \in 1..Len(matches) |->
                        <<IF k = 1 THEN items[i] ELSE MovedFromItem(items[i], T),
                          IF matches[k] \in moved THEN MovedFromItem(rhs_items[matches[k]], T)
                          ELSE rhs_items[matches[k]]>>]
       IN  joined \o JoinItems(items, rhs_items, lhs_key_selector, rhs_key_selector, T, i + 1,
                               moved \cup {matches[k] : k \in 1..Len(matches)})

JoinLeft(items, T) == [i \in 1..Len(items) |-> MovedFromItem(items[i], T)]

Join(rhs_items, lhs_key_selector, rhs_key_selector, T) ==
  /\ Unused
  /\ Returned([CallOf("join", lhs_key_selector, rhs_items, FALSE, T, TRUE) EXCEPT !.g = rhs_key_selector],
              StageOut(JoinItems(items_, rhs_items, lhs_key_selector, rhs_key_selector, T, 1, {})),
              JoinLeft(items_, T))

(***************************************************************************)
(* max, min: the guard on emptiness, then std::max_element /               *)
(* std::min_element, which walk the items from the front and move on to a  *)
(* later item only when the comparison puts it strictly beyond the one     *)
(* held.  The overload without a selector compares the items themselves.   *)
(***************************************************************************)
ItemOut(item) == [kind |-> "item", items |-> <<item>>]

NotEmptyGuard(items) == items # <<>>

Projected(value_selector, x) == IF value_selector = "none" THEN x ELSE Key(value_selector, x)

MaxElementFrontItem(items, value_selector, largest, next) == largest

RECURSIVE MaxElement(_, _, _, _)
MaxElement(items, value_selector, largest, next) ==
  IF next > Len(items) THEN largest
  ELSE IF Projected(value_selector, items[largest]) < Projected(value_selector, items[next])
       THEN MaxElement(items, value_selector, next, next + 1)
       ELSE MaxElement(items, value_selector, largest, next + 1)

RECURSIVE MinElementTakingLastTie(_, _, _, _)
MinElementTakingLastTie(items, value_selector, smallest, next) ==
  IF next > Len(items) THEN smallest
  ELSE IF Projected(value_selector, items[next]) <= Projected(value_selector, items[smallest])
       THEN MinElementTakingLastTie(items, value_selector, next, next + 1)
       ELSE MinElementTakingLastTie(items, value_selector, smallest, next + 1)

RECURSIVE MinElement(_, _, _, _)
MinElement(items, value_selector, smallest, next) ==
  IF next > Len(items) THEN smallest
  ELSE IF Projected(value_selector, items[next]) < Projected(value_selector, items[smallest])
       THEN MinElement(items, value_selector, next, next + 1)
       ELSE MinElement(items, value_selector, smallest, next + 1)

Extreme(op, value_selector) ==
  /\ Unused
  /\ LET call == CallWith(op, value_selector)
     IN  IF InvariantThrows(NotEmptyGuard(items_)) THEN Threw(call)
         ELSE Returned(call,
                       ItemOut(items_[IF op = "max" THEN MaxElement(items_, value_selector, 1, 2)
                                      ELSE MinElement(items_, value_selector, 1, 2)]),
                       items_)

MaxItem == Extreme("max", "none")
MaxBy(value_selector) == Extreme("max", value_selector)
MinItem == Extreme("min", "none")
MinBy(value_selector) == Extreme("min", value_selector)

(***************************************************************************)
(* difference, intersect: std::set_difference and std::set_intersection,   *)
(* the merge loops over the two ranges from their fronts.  The algorithms  *)
(* require sorted ranges; on others the behaviour is undefined: the loop   *)
(* runs as it does on any range, or a checked build stops the program.     *)
(***************************************************************************)
IsSorted(items) == \A i, j \in 1..Len(items) : i < j => items[i] <= items[j]

SetDifferenceOfValues(items, rhs_items) ==
  SelectSeq(items, LAMBDA x : \A j \in 1..Len(rhs_items) : rhs_items[j] # x)

RECURSIVE SetDifference(_, _)
SetDifference(items, rhs_items) ==
  IF items = <<>> \/ rhs_items = <<>> THEN items
  ELSE IF Head(items) < Head(rhs_items) THEN <<Head(items)>> \o SetDifference(Tail(items), rhs_items)
  ELSE IF Head(rhs_items) < Head(items) THEN SetDifference(items, Tail(rhs_items))
  ELSE SetDifference(Tail(items), Tail(rhs_items))

RECURSIVE SetIntersection(_, _)
SetIntersection(items, rhs_items) ==
  IF items = <<>> \/ rhs_items = <<>> THEN <<>>
  ELSE IF Head(items) < Head(rhs_items) THEN SetIntersection(Tail(items), rhs_items)
  ELSE IF Head(rhs_items) < Head(items) THEN SetIntersection(items, Tail(rhs_items))
  ELSE <<Head(items)>> \o SetIntersection(Tail(items), Tail(rhs_items))

SetAlgebra(op, rhs_items, merged) ==
  /\ Unused
  /\ LET call == CallOf(op, "none", rhs_items, FALSE, "int", TRUE)
     IN  \/ Returned(call, StageOut(merged), items_)
         \/ /\ ~(IsSorted(items_) /\ IsSorted(rhs_items))
            /\ Returned(call, CrashOut, items_)

Difference(rhs_items) == SetAlgebra("difference", rhs_items, SetDifference(items_, rhs_items))
Intersect(rhs_items) == SetAlgebra("intersect", rhs_items, SetIntersection(items_, rhs_items))

(***************************************************************************)
(* unionize: a std::set of the items, the rhs items inserted into it, and  *)
(* transforms::to_vector of the set.                                       *)
(***************************************************************************)
UnionizeItemsOfStage(items, rhs_items) == Ascending({items[i] : i \in 1..Len(items)})

UnionizeItems(items, rhs_items) ==
  Ascending({items[i] : i \in 1..Len(items)} \cup {rhs_items[j] : j \in 1..Len(rhs_items)})

Unionize(rhs_items) ==
  /\ Unused
  /\ Returned(CallOf("unionize", "none", rhs_items, FALSE, "int", TRUE),
              StageOut(UnionizeItems(items_, rhs_items)), items_)

(***************************************************************************)
(* to_single_value_map: each item, in order, is inserted under its key     *)
(* unless the std::map has the key already.  The map returned is shown as  *)
(* its (key, item) entries in iteration order, ascending by key.           *)
(***************************************************************************)
MapOut(mapped) ==
  LET keys == Ascending({entry[1] : entry \in mapped})
  IN  [kind |-> "map",
       items |-> [k \in 1..Len(keys) |-> CHOOSE entry \in mapped : entry[1] = keys[k]]]

RECURSIVE SingleValueMappedReplacing(_, _, _)
SingleValueMappedReplacing(items, key_selector, mapped) ==
  IF items = <<>> THEN mapped
  ELSE LET key == Key(key_selector, Head(items))
       IN  SingleValueMappedReplacing(Tail(items), key_selector,
             {entry \in mapped : entry[1] # key} \cup {<<key, Head(items)>>})

RECURSIVE SingleValueMapped(_, _, _)
SingleValueMapped(items, key_selector, mapped) ==
  IF items = <<>> THEN mapped
  ELSE LET key == Key(key_selector, Head(items))
       IN  SingleValueMapped(Tail(items), key_selector,
             IF \E entry \in mapped : entry[1] = key THEN mapped
             ELSE mapped \cup {<<key, Head(items)>>})

ToSingleValueMap(key_selector) ==
  /\ Unused
  /\ Returned(CallWith("to_single_value_map", key_selector),
              MapOut(SingleValueMapped(items_, key_selector, {})), items_)

(***************************************************************************)
(* shuffle: std::shuffle of items_ with a randomly seeded engine, then the *)
(* vector is moved into the new stage.  Every arrangement is an outcome.   *)
(***************************************************************************)
ShuffleItems(items, indices) == [i \in 1..Len(items) |-> items[indices[i]]]

Shuffle ==
  /\ Unused
  /\ \E indices \in Shuffles(Len(items_)) :
       Returned(Call("shuffle", 0, 0, 0), StageOut(ShuffleItems(items_, indices)), MovedFrom)

(***************************************************************************)
(* operator==: std::equal(lhs.begin(), lhs.end(), rhs.begin()), which      *)
(* compares as many items as lhs has and never looks at rhs's length.      *)
(* When rhs is the shorter and agrees with lhs as far as it goes, the next *)
(* item is read past rhs's end: undefined behaviour, which compares        *)
(* against some value or stops the program.                                *)
(***************************************************************************)
BoolOut(value) == [kind |-> "bool", items |-> <<value>>]

Mismatch(items, rhs_items) ==
  \E i \in 1..Min(Len(items), Len(rhs_items)) : items[i] # rhs_items[i]

StdEqualOutcomes(items, rhs_items) ==
  IF Mismatch(items, rhs_items) THEN {BoolOut(FALSE)}
  ELSE IF Len(items) <= Len(rhs_items) THEN {BoolOut(TRUE)}
  ELSE {BoolOut(TRUE), BoolOut(FALSE), CrashOut}

EqualsVector(rhs) ==
  /\ Unused
  /\ \E outcome \in StdEqualOutcomes(items_, rhs) :
       Returned(CallOf("==", "vector", rhs, FALSE, "int", TRUE), outcome, items_)

EqualsStage(rhs) ==
  /\ Unused
  /\ \E outcome \in StdEqualOutcomes(items_, rhs) :
       Returned(CallOf("==", "stage", rhs, FALSE, "int", TRUE), outcome, items_)

(***************************************************************************)
(* trim.  The guard is written asserts::invariant(items_.size() <= size),  *)
(* a call of a constructor the class does not have (its one constructor    *)
(* takes two arguments and is private), so no instantiation of trim        *)
(* compiles.  The model reads the statement as the guard the other         *)
(* operations spell with invariant::eval, on the condition as written.     *)
(* Past the guard, resize gets items_.size() - size in size_t: 0 when the  *)
(* two are equal, and a wrapped value above max_size(), for which resize   *)
(* throws std::length_error, when size is the larger.                      *)
(***************************************************************************)
LengthErrorOut == [kind |-> "length_error", items |-> <<>>]

TrimGuard(items_size, size) == items_size <= size
TrimResize(items_size, size) == SizeT(items_size - size)

Trim(size) ==
  /\ Unused
  /\ LET call == Call("trim", size, 0, 0)
         resized == TrimResize(Len(items_), size)
     IN  IF InvariantThrows(TrimGuard(Len(items_), size)) THEN Threw(call)
         ELSE IF resized > Len(items_) THEN Returned(call, LengthErrorOut, items_)
         ELSE Returned(call, StageOut(SubSeq(items_, 1, resized)), MovedFrom)

(***************************************************************************)
(* zip: pairs up to the shorter side; without truncate the longer side's   *)
(* tail is paired with default-constructed values (int() is 0).            *)
(***************************************************************************)
ZipItemsNoPadding(items, rhs_items, truncate) ==
  [i \in 1..Min(Len(items), Len(rhs_items)) |-> <<items[i], rhs_items[i]>>]

ZipItems(items, rhs_items, truncate) ==
  LET n == Min(Len(items), Len(rhs_items))
      zipped == [i \in 1..n |-> <<items[i], rhs_items[i]>>]
  IN  IF truncate THEN zipped
      ELSE IF Len(items) > Len(rhs_items)
      THEN zipped \o [i \in 1..(Len(items) - n) |-> <<items[n + i], DefaultItem>>]
      ELSE zipped \o [i \in 1..(Len(rhs_items) - n) |-> <<DefaultItem, rhs_items[n + i]>>]

\* The vectors a caller passes as rhs_items.
RhsInputs == SeqsUpTo(MaxLen - 1)

Zip(rhs_items, truncate) ==
  /\ Unused
  /\ Returned(CallOf("zip", "none", rhs_items, truncate, "int", TRUE),
              StageOut(ZipItems(items_, rhs_items, truncate)), items_)

(***************************************************************************)
(* The queries a caller passes to when_true / when_false: a lambda that    *)
(* takes the stage over one partition and returns the stage of one         *)
(* operation on it.                                                        *)
(***************************************************************************)
Queries == {"select_dec", "select_inc", "where_even"}
ApplyQuery(query, items) ==
  CASE query = "select_dec" -> SelectItems(items, "dec")
    [] query = "select_inc" -> SelectItems(items, "inc")
    [] query = "where_even" -> WhereItems(items, "even")

(***************************************************************************)
(* The branch typestate chain.  Each value records, beside its fields,     *)
(* whether its forward method has been called (spent), whether it has been *)
(* called again after that (respent), and how it came about (h: the steps  *)
(* that led to it, their arguments, and whether every value on the way was *)
(* used for the first time).  BranchSpec follows one chain: a step drops   *)
(* the values made by earlier calls of the later steps.                    *)
(***************************************************************************)
NoHistory ==
  [trail |-> <<>>, src |-> <<>>, predicate |-> "none", when_true_query |-> "none",
   when_false_query |-> "none", first_use |-> TRUE]

NoWhenTrue ==
  [live |-> FALSE, when_true_items_ |-> <<>>, when_false_items_ |-> <<>>,
   spent |-> FALSE, respent |-> FALSE, h |-> NoHistory]
NoWhenFalse ==
  [live |-> FALSE, when_true_queried_ |-> <<>>, when_false_items_ |-> <<>>,
   spent |-> FALSE, respent |-> FALSE, h |-> NoHistory]
NoMerge ==
  [live |-> FALSE, true_queried_ |-> <<>>, false_queried_ |-> <<>>,
   spent |-> FALSE, respent |-> FALSE, h |-> NoHistory]
NoResult ==
  [live |-> FALSE, items |-> <<>>, truncate |-> FALSE, true_queried |-> <<>>,
   false_queried |-> <<>>, h |-> NoHistory]

(***************************************************************************)
(* branch: one pass over the items, each pushed to the back of its side.   *)
(***************************************************************************)
RECURSIVE BranchItemsFalseSideInFront(_, _, _, _)
BranchItemsFalseSideInFront(items, predicate, when_true_items, when_false_items) ==
  IF items = <<>> THEN <<when_true_items, when_false_items>>
  ELSE IF Holds(predicate, Head(items))
  THEN BranchItemsFalseSideInFront(
         Tail(items), predicate, Append(when_true_items, Head(items)), when_false_items)
  ELSE BranchItemsFalseSideInFront(
         Tail(items), predicate, when_true_items, <<Head(items)>> \o when_false_items)

RECURSIVE BranchItems(_, _, _, _)
BranchItems(items, predicate, when_true_items, when_false_items) ==
  IF items = <<>> THEN <<when_true_items, when_false_items>>
  ELSE IF Holds(predicate, Head(items))
  THEN BranchItems(Tail(items), predicate, Append(when_true_items, Head(items)), when_false_items)
  ELSE BranchItems(Tail(items), predicate, when_true_items, Append(when_false_items, Head(items)))

Branch(predicate) ==
  LET parts == BranchItems(items_, predicate, <<>>, <<>>)
  IN  /\ ~wt.live
      /\ wt' = [live |-> TRUE, when_true_items_ |-> parts[1], when_false_items_ |-> parts[2],
                spent |-> FALSE, respent |-> FALSE,
                h |-> [NoHistory EXCEPT !.trail = <<"branch">>, !.src = items_,
                                        !.predicate = predicate]]
      /\ UNCHANGED <<input, items_, last, out, wf, mg, result>>

(***************************************************************************)
(* The methods each typestate class declares.                              *)
(***************************************************************************)
HasWhenTrue == wt.live
HasWhenFalse == wf.live
HasMergeOnWhenFalse == wf.live
HasMerge == mg.live

(***************************************************************************)
(* WhenTrue::when_true: the query runs on a stage made from                *)
(* when_true_items_; both vectors are moved out of the WhenTrue.           *)
(***************************************************************************)
WhenTrueQueried(query, when_true_items) == ApplyQuery(query, when_true_items)

WhenTrueStep(query) ==
  /\ HasWhenTrue
  /\ wf' = [live |-> TRUE,
            when_true_queried_ |-> WhenTrueQueried(query, wt.when_true_items_),
            when_false_items_ |-> wt.when_false_items_,
            spent |-> FALSE, respent |-> FALSE,
            h |-> [wt.h EXCEPT !.trail = Append(@, "when_true"), !.when_true_query = query,
                               !.first_use = @ /\ ~wt.spent]]
  /\ wt' = [wt EXCEPT !.when_true_items_ = MovedFrom, !.when_false_items_ = MovedFrom,
                      !.spent = TRUE, !.respent = wt.respent \/ wt.spent]
  /\ mg' = NoMerge
  /\ result' = NoResult
  /\ UNCHANGED <<input, items_, last, out>>

(***************************************************************************)
(* WhenFalse::when_false: the transformed true side is handed on through   *)
(* to_vector, the query runs on a stage made from when_false_items_.       *)
(***************************************************************************)
WhenFalseTrueSideMovedOut(when_true_queried) == MovedFrom
WhenFalseTrueSide(when_true_queried) == when_true_queried
WhenFalseQueried(query, when_false_items) == ApplyQuery(query, when_false_items)

WhenFalseStep(query) ==
  /\ HasWhenFalse
  /\ mg' = [live |-> TRUE,
            true_queried_ |-> WhenFalseTrueSide(wf.when_true_queried_),
            false_queried_ |-> WhenFalseQueried(query, wf.when_false_items_),
            spent |-> FALSE, respent |-> FALSE,
            h |-> [wf.h EXCEPT !.trail = Append(@, "when_false"), !.when_false_query = query,
                               !.first_use = @ /\ ~wf.spent]]
  /\ wf' = [wf EXCEPT !.when_true_queried_ = MovedFrom, !.when_false_items_ = MovedFrom,
                      !.spent = TRUE, !.respent = wf.respent \/ wf.spent]
  /\ result' = NoResult
  /\ UNCHANGED <<input, items_, last, out, wt>>

(***************************************************************************)
(* Merge::merge: true_queried_.zip(false_queried_.to_vector(), truncate).  *)
(* to_vector empties false_queried_; zip moves the items of true_queried_  *)
(* one by one.                                                             *)
(***************************************************************************)
MergeItemsAlwaysTruncated(true_queried, false_queried, truncate) == ZipItems(true_queried, false_queried, TRUE)
MergeItems(true_queried, false_queried, truncate) == ZipItems(true_queried, false_queried, truncate)

MergeStep(truncate) ==
  /\ HasMerge
  /\ result' = [live |-> TRUE,
                items |-> MergeItems(mg.true_queried_, mg.false_queried_, truncate),
                truncate |-> truncate,
                true_queried |-> mg.true_queried_, false_queried |-> mg.false_queried_,
                h |-> [mg.h EXCEPT !.trail = Append(@, "merge"),
                                   !.first_use = @ /\ ~mg.spent]]
  /\ mg' = [mg EXCEPT !.false_queried_ = MovedFrom,
                      !.spent = TRUE, !.respent = mg.respent \/ mg.spent]
  /\ UNCHANGED <<input, items_, last, out, wt, wf>>

(***************************************************************************)
(* The specifications.                                                     *)
(***************************************************************************)
Init ==
  /\ input \in Inputs
  /\ items_ = input
  /\ last = NoCall
  /\ out = NoOut
  /\ wt = NoWhenTrue
  /\ wf = NoWhenFalse
  /\ mg = NoMerge
  /\ result = NoResult

Next ==
  \/ \E value \in Args : Skip(value)
  \/ \E value \in Args : Take(value)
  \/ \E value \in Args : TakeRandom(value)
  \/ \E start_index \in Args, size \in Args, stride \in Strides : Slice(start_index, size, stride)
  \/ \E predicate \in Predicates, T \in ItemTypes, by_value \in BOOLEAN : Where(predicate, T, by_value)
  \/ WhereAgain
  \/ \E selector \in Selectors : Select(selector)
  \/ Reverse
  \/ ToVector
  \/ \E size \in Args : Trim(size)
  \/ Shuffle
  \/ \E rhs \in RhsInputs : EqualsVector(rhs)
  \/ \E rhs \in RhsInputs : EqualsStage(rhs)
  \/ \E rhs_items \in RhsInputs : Unionize(rhs_items)
  \/ \E key_selector \in KeySelectors : ToSingleValueMap(key_selector)
  \/ \E rhs_items \in RhsInputs : Difference(rhs_items)
  \/ \E rhs_items \in RhsInputs : Intersect(rhs_items)
  \/ MaxItem
  \/ \E value_selector \in KeySelectors : MaxBy(value_selector)
  \/ MinItem
  \/ \E value_selector \in KeySelectors : MinBy(value_selector)
  \/ \E key_selector \in KeySelectors : GroupBy(key_selector)
  \/ \E key_selector \in KeySelectors : KeyedGroupBy(key_selector)
  \/ \E rhs_items \in RhsInputs, lhs_key_selector \in KeySelectors,
        rhs_key_selector \in KeySelectors, T \in ItemTypes :
       Join(rhs_items, lhs_key_selector, rhs_key_selector, T)
  \/ Distinct
  \/ \E rhs_items \in RhsInputs, truncate \in BOOLEAN : Zip(rhs_items, truncate)
  \/ \E value_selector \in KeySelectors, descending \in BOOLEAN : OrderBy(value_selector, descending)

Spec == Init /\ [][Next]_vars

BranchNext ==
  \/ \E predicate \in Predicates : Branch(predicate)
  \/ \E query \in Queries : WhenTrueStep(query)
  \/ \E query \in Queries : WhenFalseStep(query)
  \/ \E truncate \in BOOLEAN : MergeStep(truncate)

BranchSpec == Init /\ [][BranchNext]_vars

(***************************************************************************)
(* The claims.                                                             *)
(***************************************************************************)
Succeeded == out.kind \in {"stage", "vector"}
Failed == out.kind = "invalid_argument"

CanonicalOrder == <<"branch", "when_true", "when_false", "merge">>

SameSideUpTo(items, predicate, i) ==
  Cardinality({j \in 1..i : Holds(predicate, items[j]) = Holds(predicate, items[i])})

BranchPartitions ==
  (wt.live /\ ~wt.spent) =>
    LET items == wt.h.src
        predicate == wt.h.predicate
    IN  /\ Len(wt.when_true_items_) + Len(wt.when_false_items_) = Len(items)
        /\ \A k \in 1..Len(wt.when_true_items_) : Holds(predicate, wt.when_true_items_[k])
        /\ \A k \in 1..Len(wt.when_false_items_) : ~Holds(predicate, wt.when_false_items_[k])
        /\ \A i \in 1..Len(items) :
             LET k == SameSideUpTo(items, predicate, i)
             IN  IF Holds(predicate, items[i])
                 THEN k <= Len(wt.when_true_items_) /\ wt.when_true_items_[k] = items[i]
                 ELSE k <= Len(wt.when_false_items_) /\ wt.when_false_items_[k] = items[i]

BranchedBothSidesMixed ==
  /\ wt.live /\ ~wt.spent
  /\ Len(wt.when_true_items_) = 2
  /\ wt.when_true_items_[1] > wt.when_true_items_[2]
  /\ Len(wt.when_false_items_) = 1
  /\ wt.h.src[2] = wt.when_false_items_[1]

\* C3: branch(P).when_true(T).when_false(F).merge(truncate), each value of
\* the chain used once, returns zip(T(matched), F(unmatched), truncate): the
\* i-th tuple holds the i-th item of T(matched) first and the i-th item of
\* F(unmatched) second, the default item standing in past the end of a side,
\* and there are min (truncate) or max (no truncate) of the two lengths many.
Matched(items, predicate) == SelectSeq(items, LAMBDA x : Holds(predicate, x))
Unmatched(items, predicate) == SelectSeq(items, LAMBDA x : ~Holds(predicate, x))

ItemOrDefault(items, i) == IF i <= Len(items) THEN items[i] ELSE DefaultItem

MergeIsZipOfQueried ==
  (result.live /\ result.h.first_use) =>
    LET t == ApplyQuery(result.h.when_true_query, Matched(result.h.src, result.h.predicate))
        f == ApplyQuery(result.h.when_false_query, Unmatched(result.h.src, result.h.predicate))
    IN  /\ Len(result.items) = IF result.truncate THEN Min(Len(t), Len(f)) ELSE Max(Len(t), Len(f))
        /\ \A i \in 1..Len(result.items) :
             result.items[i] = <<ItemOrDefault(t, i), ItemOrDefault(f, i)>>

MergedTwoQueriedSides ==
  /\ result.live
  /\ result.h.first_use
  /\ result.h.when_true_query = "select_dec"
  /\ result.h.when_false_query = "select_inc"
  /\ Len(result.true_queried) = 2
  /\ Len(result.false_queried) = 1
  /\ result.items = <<<<result.h.src[1] - 1, result.h.src[3] + 1>>, <<result.h.src[2] - 1, DefaultItem>>>>

\* C4: a typestate value is one-shot: its forward method is never called on
\* a value it has already been called on.
TypestateOneShot == ~wt.respent /\ ~wf.respent /\ ~mg.respent

WholeVectorOps == {"to_vector", "reverse"}
ItemwiseOps == {"where", "select", "skip", "take", "take_random", "slice"}

MergeLossless ==
  result.live =>
    /\ \A i \in 1..Len(result.true_queried) :
         i <= Len(result.items) /\ result.items[i][1] = result.true_queried[i]
    /\ \A i \in 1..Len(result.false_queried) :
         i <= Len(result.items) /\ result.items[i][2] = result.false_queried[i]

\* C6 (amended): without truncate every item of the two transformed
\* partitions is in the merge output at its own position; with truncate only
\* the first min(length of the true side, length of the false side) items of
\* each are, and the rest of the longer side is dropped.
MergeLosslessUnlessTruncated ==
  result.live =>
    LET kept(side) == IF result.truncate
                      THEN Min(Len(result.true_queried), Len(result.false_queried))
                      ELSE Len(side)
    IN  /\ \A i \in 1..kept(result.true_queried) :
             i <= Len(result.items) /\ result.items[i][1] = result.true_queried[i]
        /\ \A i \in 1..kept(result.false_queried) :
             i <= Len(result.items) /\ result.items[i][2] = result.false_queried[i]
        /\ result.truncate =>
             Len(result.items) = Min(Len(result.true_queried), Len(result.false_queried))

MergedUnevenSidesNoTruncate ==
  /\ result.live
  /\ ~result.truncate
  /\ Len(result.true_queried) = 1
  /\ Len(result.false_queried) = 2
  /\ result.items = <<<<result.true_queried[1], result.false_queried[1]>>,
                      <<DefaultItem, result.false_queried[2]>>>>

\* C7: skip(n), take(n) and take_random(n) throw the invariant-violation
\* error exactly when n is greater than the size, and return a stage for
\* every n from 0 to the size.
CountGuardedOps == {"skip", "take", "take_random"}

CountFailsIffAboveSize ==
  (last.op \in CountGuardedOps) =>
    /\ Failed <=> last.a > Len(last.pre)
    /\ ~Failed <=> out.kind = "stage"

SkippedWholeSequence ==
  /\ last.op = "skip"
  /\ last.a = Len(last.pre)
  /\ Len(last.pre) >= 2
  /\ out.kind = "stage"

\* C8: for 0 <= n <= size, take(n) returns the first n items and skip(n) the
\* other size - n items, so that what take(n) returns followed by what
\* skip(n) returns is the sequence.
TakeThenSkipIsWhole ==
  /\ (last.op = "take" /\ Succeeded) =>
       /\ Len(out.items) = last.a
       /\ \A i \in 1..last.a : out.items[i] = last.pre[i]
       /\ out.items \o SkipItems(last.pre, last.a) = last.pre
  /\ (last.op = "skip" /\ Succeeded) =>
       /\ Len(out.items) = Len(last.pre) - last.a
       /\ \A i \in 1..Len(out.items) : out.items[i] = last.pre[last.a + i]
       /\ TakeItems(last.pre, last.a) \o out.items = last.pre

TookProperPrefix ==
  /\ last.op = "take"
  /\ Succeeded
  /\ last.a = 1
  /\ Len(last.pre) = 3
  /\ last.pre[1] # last.pre[3]

\* C9: slice(start, size, stride) throws the invariant-violation error when
\* start >= the sequence's size; otherwise, with stride # 0, exactly when
\* the extent (start - 1) + size * stride, computed in size_t, exceeds the
\* sequence's size; with stride = 0 the extent check never fails.
SliceExtent(start_index, size, stride) == ((start_index - 1) + (size * stride)) % SizeModulus

SliceReadsInRange ==
  (last.op = "slice" /\ ~Failed) =>
    /\ out.kind = "stage"
    /\ Len(out.items) = last.b
    /\ \A k \in 0..(last.b - 1) :
         /\ last.a + k * last.c < Len(last.pre)
         /\ out.items[k + 1] = last.pre[last.a + k * last.c + 1]

\* C11: trim(n) with 0 <= n <= size returns the first size - n items in their
\* order, and trim(n) with n > size throws the invariant-violation error.
TrimsFromBack ==
  (last.op = "trim") =>
    IF last.a <= Len(last.pre)
    THEN out = StageOut(SubSeq(last.pre, 1, Len(last.pre) - last.a))
    ELSE Failed

\* C12: order_by(selector, descending) returns the items of the input
\* ordered by the selected value, ascending or (descending) greater first,
\* and items with equal selected values in their order of the input.
OrderByIsStableSort ==
  (last.op = "order_by") =>
    \E p \in Shuffles(Len(last.pre)) :
      /\ out.items = [i \in 1..Len(last.pre) |-> last.pre[p[i]]]
      /\ \A i, j \in 1..Len(last.pre) :
           i < j =>
             /\ ~OrderByLess(last.f, last.flag, out.items[j], out.items[i])
             /\ (Key(last.f, out.items[i]) = Key(last.f, out.items[j])) => p[i] < p[j]

\* C13: zip(rhs, truncate) returns min (truncate) or max (no truncate) of
\* the two lengths many tuples; the i-th tuple is (lhs[i], rhs[i]), with the
\* default-constructed item in place of a side that has ended.
ZipPairsPositionally ==
  (last.op = "zip") =>
    /\ out.kind = "stage"
    /\ Len(out.items) = IF last.flag THEN Min(Len(last.pre), Len(last.rhs))
                        ELSE Max(Len(last.pre), Len(last.rhs))
    /\ \A i \in 1..Len(out.items) :
         out.items[i] = <<ItemOrDefault(last.pre, i), ItemOrDefault(last.rhs, i)>>

ZippedShorterLhsPadded ==
  /\ last.op = "zip" /\ ~last.flag
  /\ Len(last.pre) = 1 /\ Len(last.rhs) = 2
  /\ last.pre[1] # DefaultItem
  /\ out.items = <<<<last.pre[1], last.rhs[1]>>, <<DefaultItem, last.rhs[2]>>>>

\* C14: where(predicate) returns the items of the input for which the
\* predicate holds, each as often as it occurs, in their order; the empty
\* sequence for the empty input.
WhereKeepsMatching ==
  (last.op = "where" /\ ~last.chained) =>
    out = StageOut(SelectSeq(last.pre, LAMBDA x : Holds(last.f, x)))

\* C15: where(P) on the result of where(P) returns that result.
WhereIdempotent ==
  (last.op = "where" /\ last.chained) => out = StageOut(last.pre)

\* C16: select(selector) returns as many items as the input has, the i-th
\* being the selector applied to the i-th item of the input.
SelectMapsEachItem ==
  (last.op = "select") =>
    /\ out.kind = "stage"
    /\ Len(out.items) = Len(last.pre)
    /\ \A i \in 1..Len(last.pre) : out.items[i] = Select1(last.f, last.pre[i])

SelectedThreeItems ==
  /\ last.op = "select" /\ last.f = "inc"
  /\ Len(last.pre) = 3 /\ last.pre[1] # last.pre[3]
  /\ out.items = <<last.pre[1] + 1, last.pre[2] + 1, last.pre[3] + 1>>

\* C17: query(V).to_vector() is V: the same length, items and order, for the
\* empty vector as well.
RoundTrip ==
  (last.op = "to_vector") => (out.kind = "vector" /\ out.items = input)

RoundTripOfThreeItems ==
  /\ last.op = "to_vector"
  /\ Len(input) = 3 /\ input[1] # input[3]
  /\ out.items = input

\* C18: distinct() returns every value that occurs in the input once, no
\* other value, in strictly ascending order.
DistinctAscendingOnce ==
  (last.op = "distinct") =>
    /\ out.kind = "stage"
    /\ {out.items[i] : i \in 1..Len(out.items)} = {last.pre[i] : i \in 1..Len(last.pre)}
    /\ \A i, j \in 1..Len(out.items) : i < j => out.items[i] < out.items[j]

DistinctOfRepeatedUnordered ==
  /\ last.op = "distinct"
  /\ last.pre = <<2, 0, 2>>
  /\ out.items = <<0, 2>>

\* C19: group_by(keySelector) returns one non-empty group for every key that
\* occurs, the groups in ascending order of their keys, each group holding
\* the items of its key in their order of the input; keyed_group_by returns
\* the same groups in the same order, each paired with its key.
GroupsOfOutput ==
  IF last.op = "keyed_group_by" THEN [k \in 1..Len(out.items) |-> out.items[k][2]]
  ELSE out.items

KeysOfOutput == [k \in 1..Len(out.items) |-> Key(last.f, GroupsOfOutput[k][1])]

GroupsByAscendingKey ==
  (last.op \in {"group_by", "keyed_group_by"}) =>
    /\ out.kind = "stage"
    /\ \A k \in 1..Len(out.items) : GroupsOfOutput[k] # <<>>
    /\ {KeysOfOutput[k] : k \in 1..Len(out.items)} = {Key(last.f, last.pre[i]) : i \in 1..Len(last.pre)}
    /\ \A k, l \in 1..Len(out.items) : k < l => KeysOfOutput[k] < KeysOfOutput[l]
    /\ \A k \in 1..Len(out.items) :
         /\ GroupsOfOutput[k] = SelectSeq(last.pre, LAMBDA x : Key(last.f, x) = KeysOfOutput[k])
         /\ last.op = "keyed_group_by" => out.items[k][1] = KeysOfOutput[k]

GroupedTwoKeysLargerFirst ==
  /\ last.op = "group_by" /\ last.f = "mod2"
  /\ last.pre = <<1, 2, 0>>
  /\ out.items = <<<<2, 0>>, <<1>>>>

\* C20: join(rhs, leftKey, rightKey) returns, for the left items in their
\* order, the tuple (left item, right item) for every right item of the
\* left item's key, in the right items' order; a left item without a match
\* gives no tuple, and an item matched several times is whole in each of its
\* tuples.
JoinIsInnerJoin ==
  (last.op = "join") =>
    LET R == Len(last.rhs)
        pairs == [n \in 1..(Len(last.pre) * R) |->
                    <<last.pre[((n - 1) \div R) + 1], last.rhs[((n - 1) % R) + 1]>>]
    IN  out = StageOut(SelectSeq(pairs, LAMBDA t : Key(last.f, t[1]) = Key(last.g, t[2])))

\* C21: max() and min(), with or without a selector, throw the
\* invariant-violation error on the empty sequence; on a non-empty one they
\* return an item of the sequence that no item exceeds (max) or undercuts
\* (min) under the comparison used.
ExtremeOps == {"max", "min"}

ExtremeOfNonEmpty ==
  (last.op \in ExtremeOps) =>
    IF last.pre = <<>> THEN Failed
    ELSE /\ out.kind = "item"
         /\ \E i \in 1..Len(last.pre) : out.items[1] = last.pre[i]
         /\ \A i \in 1..Len(last.pre) :
              IF last.op = "max"
              THEN Projected(last.f, last.pre[i]) <= Projected(last.f, out.items[1])
              ELSE Projected(last.f, last.pre[i]) >= Projected(last.f, out.items[1])

MaxOfEmptyThrew ==
  /\ last.op = "max" /\ last.f = "none"
  /\ last.pre = <<>>
  /\ Failed

\* C22: max(selector) and min(selector) compare the selected values only,
\* and of several items with the extreme selected value return the first.
ExtremeBySelectorFirstOfTies ==
  (last.op \in ExtremeOps /\ last.f # "none" /\ last.pre # <<>>) =>
    \E i \in 1..Len(last.pre) :
      /\ out.items = <<last.pre[i]>>
      /\ \A j \in 1..Len(last.pre) :
           IF last.op = "max" THEN Key(last.f, last.pre[j]) <= Key(last.f, last.pre[i])
           ELSE Key(last.f, last.pre[j]) >= Key(last.f, last.pre[i])
      /\ \A j \in 1..(i - 1) : Key(last.f, last.pre[j]) # Key(last.f, last.pre[i])

MinByTiedKeys ==
  /\ last.op = "min" /\ last.f = "mod2"
  /\ last.pre = <<1, 2, 0>>
  /\ out.items = <<2>>

\* C23: for ascending lhs and rhs, difference(rhs) holds every value v
\* max(0, c_l - c_r) times and intersect(rhs) holds it min(c_l, c_r) times,
\* c_l and c_r being the occurrences of v in lhs and rhs; both results are
\* ascending.
Count(items, v) == Cardinality({i \in 1..Len(items) : items[i] = v})

SortedSetAlgebraIsMultiset ==
  (last.op \in {"difference", "intersect"} /\ IsSorted(last.pre) /\ IsSorted(last.rhs)) =>
    /\ out.kind = "stage"
    /\ IsSorted(out.items)
    /\ \A v \in Values :
         Count(out.items, v) =
           IF last.op = "difference" THEN Max(0, Count(last.pre, v) - Count(last.rhs, v))
           ELSE Min(Count(last.pre, v), Count(last.rhs, v))

DifferenceOfRepeatedValue ==
  /\ last.op = "difference"
  /\ last.pre = <<1, 1, 2>> /\ last.rhs = <<1>>
  /\ out.items = <<1, 2>>

\* C24: unionize(rhs) returns every value that occurs in lhs or rhs once, in
\* ascending order, whatever the order and repetitions of lhs and rhs: it is
\* distinct() of lhs followed by rhs.
UnionizeIsDistinctOfBoth ==
  (last.op = "unionize") =>
    /\ out.kind = "stage"
    /\ {out.items[i] : i \in 1..Len(out.items)} =
         {last.pre[i] : i \in 1..Len(last.pre)} \cup {last.rhs[j] : j \in 1..Len(last.rhs)}
    /\ \A i, j \in 1..Len(out.items) : i < j => out.items[i] < out.items[j]
    /\ out.items = DistinctItems(last.pre \o last.rhs)

UnionizedUnsortedWithRepeats ==
  /\ last.op = "unionize"
  /\ last.pre = <<2, 0, 2>> /\ last.rhs = <<1, 0>>
  /\ out.items = <<0, 1, 2>>

\* C25: to_single_value_map(keySelector) has one entry for every key that
\* occurs in the input, and the entry of a key holds the first item of the
\* input that has the key.
SingleValueMapKeepsFirst ==
  (last.op = "to_single_value_map") =>
    /\ out.kind = "map"
    /\ {out.items[k][1] : k \in 1..Len(out.items)} = {Key(last.f, last.pre[i]) : i \in 1..Len(last.pre)}
    /\ \A k, l \in 1..Len(out.items) : k # l => out.items[k][1] # out.items[l][1]
    /\ \A k \in 1..Len(out.items) :
         \E i \in 1..Len(last.pre) :
           /\ out.items[k] = <<Key(last.f, last.pre[i]), last.pre[i]>>
           /\ \A j \in 1..(i - 1) : Key(last.f, last.pre[j]) # Key(last.f, last.pre[i])

MappedFirstOfSharedKey ==
  /\ last.op = "to_single_value_map" /\ last.f = "mod2"
  /\ last.pre = <<2, 1, 0>>
  /\ out.items = <<<<0, 2>>, <<1, 1>>>>

\* C26: take_random(n) with n <= size returns n items, each from a position
\* of its own of the input, so that no value occurs in the result more often
\* than in the input, whichever arrangement the random source produces.
TakeRandomFromDistinctPositions ==
  (last.op = "take_random" /\ last.a <= Len(last.pre)) =>
    /\ out.kind = "stage"
    /\ Len(out.items) = last.a
    /\ \A v \in Values : Count(out.items, v) <= Count(last.pre, v)
    /\ \E p \in Shuffles(Len(last.pre)) : \A k \in 1..last.a : out.items[k] = last.pre[p[k]]

TookTwoAtRandomOutOfOrder ==
  /\ last.op = "take_random" /\ last.a = 2
  /\ last.pre = <<0, 1, 2>>
  /\ out.items = <<2, 0>>

\* C27: operator== of a stage and a vector, and of two stages, is true
\* exactly when the two sides have the same length and equal items at every
\* position; false, in particular, when one side is a strict prefix of the
\* other.
EqualsIffSameSequence ==
  (last.op = "==") => out = BoolOut(last.pre = last.rhs)

\* C28: when skip, take, take_random, slice, max or min fails its
\* precondition, no stage or item is returned and the stage holds the
\* sequence it held before the call.
GuardedOps == {"skip", "take", "take_random", "slice", "max", "min"}

FailureLeavesStage ==
  (last.op \in GuardedOps /\ Failed) =>
    /\ out = ErrorOut
    /\ items_ = last.pre
    /\ items_ = input

TakeAboveSizeLeftStage ==
  /\ last.op = "take" /\ last.a = 3
  /\ Len(last.pre) = 2
  /\ Failed
  /\ items_ = last.pre

\* C29: reverse(), order_by(selector, descending) and shuffle() return a
\* permutation of the input: the same length and every value as often as in
\* the input; reverse() returns the items in reversed positions.
ReorderingOps == {"reverse", "order_by", "shuffle"}

ReorderingsArePermutations ==
  (last.op \in ReorderingOps) =>
    /\ out.kind = "stage"
    /\ Len(out.items) = Len(last.pre)
    /\ \A v \in Values : Count(out.items, v) = Count(last.pre, v)
    /\ last.op = "reverse" =>
         \A i \in 1..Len(last.pre) : out.items[i] = last.pre[Len(last.pre) + 1 - i]

ReversedThreeItems ==
  /\ last.op = "reverse"
  /\ last.pre = <<0, 1, 2>>
  /\ out.items = <<2, 1, 0>>

\* C30: with the extent computed in size_t, slice(0, n, 1) on a non-empty
\* sequence succeeds for every n with 0 <= n <= size and returns the first n
\* items, as take(n) does.
SliceFromFrontIsTake ==
  (last.op = "slice" /\ last.a = 0 /\ last.c = 1 /\ last.pre # <<>> /\ last.b <= Len(last.pre)) =>
    out = StageOut(TakeItems(last.pre, last.b))

====
